---- MODULE Spec2Model ----
(***************************************************************************)
(* Verification model of orchestrated-ping: the request-metrics middleware *)
(* (internal/middleware/metrics.go), the process-wide Prometheus series    *)
(* (internal/metrics/metrics.go), the server lifecycle                     *)
(* (internal/server/server.go, cmd main) and the ECS log encoder           *)
(* (internal/logger/ecs.go).                                               *)
(***************************************************************************)
EXTENDS Integers, Sequences, FiniteSets, TLC

VARIABLES
    req,                \* per request: position in Metrics' closure and its locals
    HttpRequestsTotal,  \* counter vec: labelset -> value
    HttpDuration,       \* histogram vec: labelset -> number of observations
    ww,                 \* one request followed call by call: the proxy and its writer
    made,               \* the calls made on that proxy so far, in order
    chain,              \* where that request is in the middleware chain
    outcome,            \* how its handler ended
    recorded,           \* the status Metrics read from the proxy (0: not yet)
    inShutdown,         \* http.Server.inShutdown
    listeners,          \* the Start calls whose listener the server tracks
    start,              \* per Start call: position in Start / ListenAndServe, result
    conn,               \* per connection: none, active (request running), idle, closed
    sd,                 \* the Shutdown call: position, result, calls made so far, previous result
    ctxDone,            \* the shutdown context's deadline has elapsed
    inflight,           \* requests running at the Shutdown call, not finished by the deadline
    mainpc,             \* position of func main
    quit,               \* signals buffered in main's quit channel
    exitCode,           \* the process's exit code (NoExit while it runs)
    event,              \* the slog.Record handed to the encoder
    hdl,                \* the ECSHandler
    stdout,             \* the writes made on os.Stdout, in order
    logerr,             \* what Handle returned: "none" (not called), "nil", "err"
    logpc,              \* the log call: ready, done
    hdls,               \* the ECSHandler values created so far; hdls[1] is the root
    lg,                 \* per logging goroutine: position in Handle, what it returned
    scraped,            \* per request: the series a GET /metrics handler gathered
    ceiling,            \* the followed request's 60 s context deadline has passed
    cfg,                \* what config.Load returned to main
    rq,                 \* per request: its way through Logger and the handler, its log lines
    buf                 \* what was written to a writer other than os.Stdout

metricsVars == <<req, HttpRequestsTotal, HttpDuration, scraped>>
writerVars == <<ww, made, chain, outcome, recorded, ceiling>>
serverVars == <<inShutdown, listeners, start, conn, sd, ctxDone, inflight>>
mainVars == <<mainpc, quit, exitCode, cfg>>
logVars == <<event, hdl, stdout, logerr, logpc, hdls, lg, rq, buf>>
vars == <<metricsVars, writerVars, serverVars, mainVars, logVars>>

(***************************************************************************)
(* Bounds                                                                  *)
(***************************************************************************)
NumReq == 2     \* requests handled concurrently
MaxOps == 2     \* WriteHeader / Write calls one handler makes
NumConn == 2    \* connections the clients open
NumStart == 2   \* Start calls made on one Server
MaxShutdown == 2 \* Shutdown calls made on one Server
MaxAttrs == 2   \* attributes one log event carries
MaxDerive == 2  \* WithAttrs / WithGroup calls made on the encoders
NumLog == 2     \* goroutines logging concurrently

Requests == 1 .. NumReq

(***************************************************************************)
(* HTTP vocabulary                                                         *)
(***************************************************************************)
StatusOK == 200
StatusNotFound == 404
StatusMethodNotAllowed == 405
StatusInternalServerError == 500
StatusGatewayTimeout == 504

Methods == {"GET", "POST"}
Paths == {"/ping", "/x", "/metrics"}
HandlerCodes == {StatusOK, StatusNotFound}

\* strconv.Itoa on a non-negative int: decimal digits, most significant first
Digit(d) ==
    CASE d = 0 -> "0" [] d = 1 -> "1" [] d = 2 -> "2" [] d = 3 -> "3"
      [] d = 4 -> "4" [] d = 5 -> "5" [] d = 6 -> "6" [] d = 7 -> "7"
      [] d = 8 -> "8" [] d = 9 -> "9"

RECURSIVE Itoa(_)
Itoa(n) == IF n < 10 THEN Digit(n) ELSE Itoa(n \div 10) \o Digit(n % 10)

(***************************************************************************)
(* Response writer proxy (middleware/metrics.go) over net/http's writer    *)
(***************************************************************************)
\* The calls a handler or an inner middleware makes on the writer it is given
WH(c) == [op |-> "WriteHeader", code |-> c]
WR == [op |-> "Write", code |-> 0]
HandlerOps == {WH(c) : c \in HandlerCodes} \cup {WR}
OpSeqs == UNION {[1 .. n -> HandlerOps] : n \in 0 .. MaxOps}

\* ww := &responseWriter{ResponseWriter: w, statusCode: http.StatusOK}
\* statusCode: the proxy's field; wrote: the status net/http committed to the
\* client (0: nothing sent yet); calls: what the wrapped writer received.
NewResponseWriter == [statusCode |-> StatusOK, wrote |-> 0, calls |-> <<>>]

\* net/http's writer: the first WriteHeader commits the status, a later one is
\* superfluous and ignored; a Write before any WriteHeader commits 200.
UnderlyingWriteHeader(rw, code) ==
    [rw EXCEPT !.wrote = IF @ = 0 THEN code ELSE @,
               !.calls = Append(@, WH(code))]

UnderlyingWrite(rw) ==
    [rw EXCEPT !.wrote = IF @ = 0 THEN StatusOK ELSE @,
               !.calls = Append(@, WR)]

\* mutant: the proxy records the code and does not pass the call on
WriteHeaderNotForwarded(rw, code) == [rw EXCEPT !.statusCode = code]

\* func (rw *responseWriter) WriteHeader(code int)
WriteHeader(rw, code) ==
    UnderlyingWriteHeader([rw EXCEPT !.statusCode = code], code)

\* Write is not overridden: the embedded http.ResponseWriter's method runs
Write(rw) == UnderlyingWrite(rw)

Call(rw, o) == IF o.op = "WriteHeader" THEN WriteHeader(rw, o.code) ELSE Write(rw)

RECURSIVE RunOps(_, _)
RunOps(rw, ops) ==
    IF ops = <<>> THEN rw ELSE RunOps(Call(rw, Head(ops)), Tail(ops))

(***************************************************************************)
(* The router and the middleware inside Metrics (server.go setupRouter)    *)
(***************************************************************************)
\* r.Get("/ping"), r.Get("/health"), r.Get("/ready"), r.Handle("/metrics")
GetRoutes == {"/ping", "/health", "/ready"}
AnyRoutes == {"/metrics"}

Matched(method, path) ==
    \/ path \in GetRoutes /\ method = "GET"
    \/ path \in AnyRoutes

\* mutant: the raw request path is used as the endpoint label
RoutePatternRawPath(method, path) == path

\* chi.RouteContext(r.Context()).RoutePattern(): the pattern of the route that
\* served the request, empty when none did (not found, method not allowed)
RoutePattern(method, path) == IF Matched(method, path) THEN path ELSE ""

\* chi's default NotFound / MethodNotAllowed handlers
Unrouted(rw, path) ==
    IF path \in GetRoutes \cup AnyRoutes
    THEN Write(WriteHeader(rw, StatusMethodNotAllowed))
    ELSE Write(WriteHeader(rw, StatusNotFound))

\* chimiddleware.Timeout(60s): its deferred function writes 504 when the
\* request context's deadline was exceeded, whatever the handler already wrote
Timeout(rw, timedOut) ==
    IF timedOut THEN WriteHeader(rw, StatusGatewayTimeout) ELSE rw

\* mutant: the panic is recovered and no status is written
RecovererSilent(rw, how, upgrade) == rw

\* chimiddleware.Recoverer: recovers a panic and writes 500 unless the request
\* is a connection upgrade; http.ErrAbortHandler is re-panicked (outcome "abort")
Recoverer(rw, how, upgrade) ==
    IF how = "panic" /\ ~upgrade
    THEN WriteHeader(rw, StatusInternalServerError)
    ELSE rw

Outcomes == {"return", "panic", "abort"}

\* What a routed handler can do: its calls, how it ends, whether the 60 s
\* deadline passed, whether the request asks for a connection upgrade
Behaviours ==
    [ops : OpSeqs, outcome : Outcomes, timedOut : BOOLEAN, upgrade : BOOLEAN]

\* next.ServeHTTP(ww, r) as seen by Metrics: Recoverer(Timeout(handler))
NextServeHTTP(method, path, b) ==
    IF Matched(method, path)
    THEN Recoverer(Timeout(RunOps(NewResponseWriter, b.ops), b.timedOut),
                   b.outcome, b.upgrade)
    ELSE Unrouted(NewResponseWriter, path)

(***************************************************************************)
(* Prometheus vectors (metrics/metrics.go): a series exists once            *)
(* WithLabelValues named it; Inc and Observe are atomic on the series       *)
(***************************************************************************)
Value(vec, ls) == IF ls \in DOMAIN vec THEN vec[ls] ELSE 0

\* mutant: the increment stores 1 instead of adding to the series
CounterIncOverwrite(vec, ls) ==
    [x \in DOMAIN vec \cup {ls} |-> IF x = ls THEN 1 ELSE vec[x]]

\* mutant: the increment is applied to every series of the vector
CounterIncAll(vec, ls) ==
    [x \in DOMAIN vec \cup {ls} |-> Value(vec, x) + 1]

\* CounterVec.WithLabelValues(...).Inc()
CounterInc(vec, ls) ==
    [x \in DOMAIN vec \cup {ls} |-> IF x = ls THEN Value(vec, x) + 1 ELSE vec[x]]

\* mutant: the observation is dropped
HistogramObserveDropped(vec, ls) == vec

\* HistogramVec.WithLabelValues(...).Observe(d): the observation count
HistogramObserve(vec, ls) ==
    [x \in DOMAIN vec \cup {ls} |-> IF x = ls THEN Value(vec, x) + 1 ELSE vec[x]]

EmptyVec == [x \in {} |-> 0]
NoLabels == <<>>

\* the labels Metrics computes after next.ServeHTTP returned
Labels(method, path, status) == <<method, RoutePattern(method, path), Itoa(status)>>
ObserveLabels(r) == Labels(r.method, r.path, r.statusCode)

\* mutant: the counter is labelled with a fixed status instead of ww.statusCode
IncLabelsFixedStatus(r) == Labels(r.method, r.path, StatusOK)

IncLabels(r) == Labels(r.method, r.path, r.statusCode)

(***************************************************************************)
(* Metrics middleware, one closure invocation per request                  *)
(***************************************************************************)
\* promhttp.Handler() on /metrics: gathers the registry and writes it with 200
PromBehaviours ==
    {[ops |-> <<WR>>, outcome |-> "return", timedOut |-> t, upgrade |-> FALSE] :
        t \in BOOLEAN}

\* what the handler registered for the path can do
HandlerBehaviours(path) == IF path \in AnyRoutes THEN PromBehaviours ELSE Behaviours

\* no response body of GET /metrics yet
NoScrape ==
    [taken |-> FALSE, total |-> EmptyVec, duration |-> EmptyVec,
     before |-> {}, started |-> {}]

\* mutant: the handler answers with an empty exposition
GatherNothing(i) ==
    [taken |-> TRUE, total |-> EmptyVec, duration |-> EmptyVec,
     before |-> {k \in Requests : req[k].pc \in {"done", "aborted"}},
     started |-> {k \in Requests \ {i} : req[k].pc # "new"}]

\* the series promhttp's handler gathers for request i; before / started: the
\* requests that had finished, resp. had begun, when it did
Gather(i) ==
    [taken |-> TRUE, total |-> HttpRequestsTotal, duration |-> HttpDuration,
     before |-> {k \in Requests : req[k].pc \in {"done", "aborted"}},
     started |-> {k \in Requests \ {i} : req[k].pc # "new"}]

NewReq ==
    [pc |-> "new", method |-> "", path |-> "", statusCode |-> 0,
     observed |-> NoLabels, counted |-> NoLabels, nObserve |-> 0, nInc |-> 0]

InitMetrics ==
    /\ req = [i \in Requests |-> NewReq]
    /\ HttpRequestsTotal = EmptyVec
    /\ HttpDuration = EmptyVec
    /\ scraped = [i \in Requests |-> NoScrape]

\* what Metrics can find when next.ServeHTTP(ww, r) is over: the proxy's
\* statusCode, or the panic Recoverer re-panicked passing through
ServeResults(method, path) ==
    {[statusCode |-> NextServeHTTP(method, path, b).statusCode,
      aborted |-> Matched(method, path) /\ b.outcome = "abort"] :
        b \in HandlerBehaviours(path)}

\* start := time.Now(); ww := ...; next.ServeHTTP(ww, r)
\* A panic that Recoverer re-panics unwinds through Metrics: nothing is recorded.
Serve(i) ==
    /\ req[i].pc = "new"
    /\ \E method \in Methods, path \in Paths :
         \E res \in ServeResults(method, path) :
              /\ req' = [req EXCEPT ![i] =
                    IF res.aborted
                    THEN [@ EXCEPT !.pc = "aborted"]
                    ELSE [@ EXCEPT !.pc = "returned", !.method = method,
                                   !.path = path, !.statusCode = res.statusCode]]
              /\ scraped' = IF path \in AnyRoutes
                            THEN [scraped EXCEPT ![i] = Gather(i)]
                            ELSE scraped
    /\ UNCHANGED <<HttpRequestsTotal, HttpDuration, writerVars, serverVars, mainVars, logVars>>

\* metrics.HttpDuration.WithLabelValues(r.Method, endpoint, statusCode).Observe(duration)
Observe(i) ==
    /\ req[i].pc = "returned"
    /\ HttpDuration' = HistogramObserve(HttpDuration, ObserveLabels(req[i]))
    /\ req' = [req EXCEPT ![i].pc = "observed",
                          ![i].observed = ObserveLabels(req[i]),
                          ![i].nObserve = @ + 1]
    /\ UNCHANGED <<HttpRequestsTotal, scraped, writerVars, serverVars, mainVars, logVars>>

\* metrics.HttpRequestsTotal.WithLabelValues(r.Method, endpoint, statusCode).Inc()
Inc(i) ==
    /\ req[i].pc = "observed"
    /\ HttpRequestsTotal' = CounterInc(HttpRequestsTotal, IncLabels(req[i]))
    /\ req' = [req EXCEPT ![i].pc = "done",
                          ![i].counted = IncLabels(req[i]),
                          ![i].nInc = @ + 1]
    /\ UNCHANGED <<HttpDuration, scraped, writerVars, serverVars, mainVars, logVars>>

(***************************************************************************)
(* One request through Metrics, call by call: handler, then the deferred   *)
(* functions of Timeout and Recoverer, then Metrics reads ww.statusCode    *)
(***************************************************************************)
InitWriter ==
    /\ ww = NewResponseWriter
    /\ made = <<>>
    /\ chain = "handler"
    /\ outcome = "return"
    /\ recorded = 0
    /\ ceiling = FALSE

\* the handler calls w.WriteHeader(code) or w.Write(body)
HandlerCall ==
    /\ chain = "handler"
    /\ Len(made) < MaxOps
    /\ \E o \in HandlerOps :
         /\ ww' = Call(ww, o)
         /\ made' = Append(made, o)
    /\ UNCHANGED <<chain, outcome, recorded, ceiling, metricsVars, serverVars, mainVars, logVars>>

\* the handler returns or panics
HandlerEnd ==
    /\ chain = "handler"
    /\ outcome' \in Outcomes
    /\ chain' = "timeout"
    /\ UNCHANGED <<ww, made, recorded, ceiling, metricsVars, serverVars, mainVars, logVars>>

\* the deadline context.WithTimeout(r.Context(), 60s) set passes while the
\* handler runs: ctx.Done() is closed, nothing else happens to the handler
CeilingElapse ==
    /\ chain = "handler"
    /\ ~ceiling
    /\ ceiling' = TRUE
    /\ UNCHANGED <<ww, made, chain, outcome, recorded, metricsVars, serverVars, mainVars, logVars>>

TimeoutDefer ==
    /\ chain = "timeout"
    /\ ww' = Timeout(ww, ceiling)
    /\ made' = IF ceiling THEN Append(made, WH(StatusGatewayTimeout)) ELSE made
    /\ chain' = "recoverer"
    /\ UNCHANGED <<outcome, recorded, ceiling, metricsVars, serverVars, mainVars, logVars>>

RecovererDefer ==
    /\ chain = "recoverer"
    /\ \E upgrade \in BOOLEAN :
         /\ ww' = Recoverer(ww, outcome, upgrade)
         /\ made' = IF outcome = "panic" /\ ~upgrade
                    THEN Append(made, WH(StatusInternalServerError)) ELSE made
    /\ chain' = IF outcome = "abort" THEN "aborted" ELSE "metrics"
    /\ UNCHANGED <<outcome, recorded, ceiling, metricsVars, serverVars, mainVars, logVars>>

\* mutant: the re-panicked value ends the process (exit status 2)
ConnServeCrash(code) == 2

\* net/http's conn.serve recovers what panics out of the handler chain, logs
\* it and closes the connection: the process's exit code stays as it is
ConnServeRecover(code) == code

\* http.ErrAbortHandler, re-panicked by Recoverer, reaches conn.serve
ServeRecover ==
    /\ chain = "aborted"
    /\ chain' = "closed"
    /\ exitCode' = ConnServeRecover(exitCode)
    /\ UNCHANGED <<ww, made, outcome, recorded, ceiling, mainpc, quit, cfg,
                   metricsVars, serverVars, logVars>>

\* statusCode := strconv.Itoa(ww.statusCode)
MetricsRead ==
    /\ chain = "metrics"
    /\ recorded' = ww.statusCode
    /\ chain' = "done"
    /\ UNCHANGED <<ww, made, outcome, ceiling, metricsVars, serverVars, mainVars, logVars>>


(***************************************************************************)
(* Server (server/server.go) over net/http's Server                        *)
(***************************************************************************)
Conns == 1 .. NumConn
StartIds == 1 .. NumStart
NoExit == 0 - 1

Active == {c \in Conns : conn[c] = "active"}

\* mutant: Start does not see that the server was shut down
ShuttingDownNever == FALSE

\* srv.shuttingDown()
ShuttingDown == inShutdown

\* closeIdleConns: idle connections are closed; quiescent when none is left busy
CloseIdle(cs) == [c \in Conns |-> IF cs[c] = "idle" THEN "closed" ELSE cs[c]]

\* mutant: Shutdown drops the context's error and reports success
OnDeadlineSwallowed(s) == [s EXCEPT !.pc = "returned", !.result = "nil"]

\* mutant: Shutdown does not watch the context and keeps waiting
OnDeadlineIgnored(s) == s

\* Shutdown's wait ends at the context's deadline: return ctx.Err()
OnDeadline(s) == [s EXCEPT !.pc = "returned", !.result = "timeout"]

\* mutant: Shutdown reports an error although every connection is idle
OnQuiescentError(s) == [s EXCEPT !.pc = "returned", !.result = "timeout"]

\* Shutdown found every connection idle: return nil
OnQuiescent(s) == [s EXCEPT !.pc = "returned", !.result = "nil"]

InitServer ==
    /\ inShutdown = FALSE
    /\ listeners = {}
    /\ start = [s \in StartIds |-> [pc |-> "idle", result |-> "none", late |-> FALSE, err |-> "none"]]
    /\ conn = [c \in Conns |-> "none"]
    /\ sd = [pc |-> "idle", result |-> "none", n |-> 0, atCall |-> {}, prev |-> "none"]
    /\ ctxDone = FALSE
    /\ inflight = {}

\* config.go constants
ServiceName == "orchestrated-ping"
ServiceVersion == "1.0.0"
ECSVersion == "8.11.0"

\* environment values and configuration strings, character by character
DefaultPort == <<"8", "0", "8", "0">>
PortEnvs == {<<>>, DefaultPort, <<"a", "b", "c">>, <<"8", "x">>, <<"-", "1">>}

\* func getEnv(key, defaultValue string) string
getEnv(value, defaultValue) == IF value # <<>> THEN value ELSE defaultValue

\* strconv.Atoi(s) returns no error: an optional sign, then decimal digits
AtoiOk(str) ==
    LET digits == IF str # <<>> /\ str[1] \in {"+", "-"} THEN Tail(str) ELSE str
    IN /\ digits # <<>>
       /\ \A k \in 1 .. Len(digits) :
             digits[k] \in {"0", "1", "2", "3", "4", "5", "6", "7", "8", "9"}

\* func (c *Config) Validate() error
Validate(c) ==
    IF c.port = <<>> THEN "server port cannot be empty"
    ELSE IF ~AtoiOk(c.port) THEN "invalid port number"
    ELSE IF c.name = "" THEN "service name cannot be empty"
    ELSE IF c.version = "" THEN "service version cannot be empty"
    ELSE "nil"

\* func Load() (*Config, error), given the value of PORT in the environment
Load(portEnv) ==
    LET c == [port |-> getEnv(portEnv, DefaultPort),
              name |-> ServiceName, version |-> ServiceVersion]
    IN [loaded |-> TRUE, port |-> c.port, err |-> Validate(c) # "nil"]

\* main has not called config.Load yet
NoConfig == [loaded |-> FALSE, port |-> <<>>, err |-> FALSE]

\* mutant: main goes on although Load returned an error
ExitOnLoadErrorIgnored(err) == NoExit

\* if err != nil { slog.Error(...); os.Exit(1) }
ExitOnLoadError(err) == IF err THEN 1 ELSE NoExit

InitMain ==
    /\ mainpc = "init"
    /\ quit = 0
    /\ exitCode = NoExit
    /\ cfg = NoConfig

\* mutant: Start hands on whatever ListenAndServe returned
StartResultRaw(err) == "err"

\* if err := ListenAndServe(); err != nil && err != http.ErrServerClosed
\* { return err }; return nil
StartResult(err) == IF err # "nil" /\ err # "ErrServerClosed" THEN "err" ELSE "nil"

\* Start returns: err is what ListenAndServe returned
StartEnds(st, err) == [st EXCEPT !.pc = "returned", !.err = err, !.result = StartResult(err)]

\* func (s *Server) Start(): s.logger.Info("starting server", ...)
StartCall(s) ==
    /\ start[s].pc = "idle"
    /\ start' = [start EXCEPT ![s].pc = "check", ![s].late = inShutdown]
    /\ UNCHANGED <<inShutdown, listeners, conn, sd, ctxDone, inflight>>

\* ListenAndServe: if srv.shuttingDown() { return ErrServerClosed }, which
\* Start turns into nil
StartCheck(s) ==
    /\ start[s].pc = "check"
    /\ start' = [start EXCEPT ![s] =
                    IF ShuttingDown THEN StartEnds(@, "ErrServerClosed")
                    ELSE [@ EXCEPT !.pc = "listen"]]
    /\ UNCHANGED <<inShutdown, listeners, conn, sd, ctxDone, inflight>>

\* the port is taken while another Start call of this server holds a socket
PortHeld == \E t \in StartIds : start[t].pc \in {"track", "serving"}

\* ListenAndServe: net.Listen("tcp", addr); a bind error is returned by Start
StartListen(s) ==
    /\ start[s].pc = "listen"
    /\ \E ok \in BOOLEAN :
         start' = [start EXCEPT ![s] =
                      IF ok /\ ~PortHeld THEN [@ EXCEPT !.pc = "track"]
                      ELSE StartEnds(@, "bind")]
    /\ UNCHANGED <<inShutdown, listeners, conn, sd, ctxDone, inflight>>

\* Serve: if !srv.trackListener(&l, true) { return ErrServerClosed }
StartTrack(s) ==
    /\ start[s].pc = "track"
    /\ IF ShuttingDown
       THEN /\ start' = [start EXCEPT ![s] = StartEnds(@, "ErrServerClosed")]
            /\ UNCHANGED listeners
       ELSE /\ start' = [start EXCEPT ![s].pc = "serving"]
            /\ listeners' = listeners \cup {s}
    /\ UNCHANGED <<inShutdown, conn, sd, ctxDone, inflight>>

\* Serve's loop: l.Accept(), then the connection's goroutine runs the request
Accept(s, c) ==
    /\ start[s].pc = "serving"
    /\ s \in listeners
    /\ conn[c] = "none"
    /\ conn' = [conn EXCEPT ![c] = "active"]
    /\ UNCHANGED <<inShutdown, listeners, start, sd, ctxDone, inflight>>

\* Accept failed on the closed listener: ListenAndServe returns
\* ErrServerClosed and Start returns nil
StartReturn(s) ==
    /\ start[s].pc = "closed"
    /\ start' = [start EXCEPT ![s] = StartEnds(@, "ErrServerClosed")]
    /\ UNCHANGED <<inShutdown, listeners, conn, sd, ctxDone, inflight>>

\* the router's handler chain returned and the response is written; during
\* shutdown keep-alives are off and the connection closes
RequestComplete(c) ==
    /\ conn[c] = "active"
    /\ conn' = [conn EXCEPT ![c] = IF ShuttingDown THEN "closed" ELSE "idle"]
    /\ inflight' = IF ctxDone THEN inflight ELSE inflight \ {c}
    /\ UNCHANGED <<inShutdown, listeners, start, sd, ctxDone>>

\* the next request on a kept-alive connection
KeepAliveRequest(c) ==
    /\ conn[c] = "idle"
    /\ conn' = [conn EXCEPT ![c] = "active"]
    /\ UNCHANGED <<inShutdown, listeners, start, sd, ctxDone, inflight>>

\* func (s *Server) Shutdown(ctx): s.httpServer.Shutdown(ctx) sets inShutdown,
\* closes the listeners, waits for Serve to leave its loop, then polls:
\* closeIdleConns, and return nil when quiescent, else wait for the next poll
\* or for ctx.Done(). expired: ctx was created with a timeout <= 0.
ShutdownCall(expired) ==
    /\ sd.pc # "waiting"
    /\ inShutdown' = TRUE
    /\ listeners' = {}
    /\ start' = [s \in StartIds |->
                    IF start[s].pc = "serving" THEN [start[s] EXCEPT !.pc = "closed"]
                    ELSE start[s]]
    /\ conn' = CloseIdle(conn)
    /\ sd' = LET called == [sd EXCEPT !.pc = "waiting", !.result = "none",
                                      !.n = @ + 1, !.atCall = Active,
                                      !.prev = sd.result]
             IN IF Active = {} THEN OnQuiescent(called)
                ELSE IF expired THEN OnDeadline(called)
                ELSE called
    /\ ctxDone' = expired
    /\ inflight' = Active

\* the poll timer fired: closeIdleConns again
ShutdownPoll ==
    /\ sd.pc = "waiting"
    /\ Active = {}
    /\ conn' = CloseIdle(conn)
    /\ sd' = OnQuiescent(sd)
    /\ UNCHANGED <<inShutdown, listeners, start, ctxDone, inflight>>

\* the context's deadline elapses while Shutdown waits in its select
DeadlineElapse ==
    /\ sd.pc = "waiting"
    /\ ~ctxDone
    /\ ctxDone' = TRUE
    /\ sd' = OnDeadline(sd)
    /\ UNCHANGED <<inShutdown, listeners, start, conn, inflight>>

(***************************************************************************)
(* func main (cmd): the Start goroutine, the signal, Shutdown, the exit    *)
(***************************************************************************)
Alive == exitCode = NoExit

\* cfg, err := config.Load(); on an error main exits with code 1
MainLoad ==
    /\ Alive /\ mainpc = "init"
    /\ \E env \in PortEnvs :
         /\ cfg' = Load(env)
         /\ exitCode' = ExitOnLoadError(Load(env).err)
         /\ mainpc' = IF ExitOnLoadError(Load(env).err) = NoExit THEN "loaded" ELSE "failed"
    /\ UNCHANGED <<quit, serverVars>>

\* go func() { if err := srv.Start(); err != nil { ...; os.Exit(1) } }()
MainGo ==
    /\ Alive /\ mainpc = "loaded"
    /\ mainpc' = "wait"
    /\ StartCall(1)
    /\ UNCHANGED <<quit, exitCode, cfg>>

\* a step of the goroutine; a Start error ends the process with code 1
GoStart(A) ==
    /\ Alive
    /\ A
    /\ exitCode' = IF start'[1].result = "err" THEN 1 ELSE exitCode
    /\ UNCHANGED <<mainpc, quit, cfg>>

GoStartCheck == GoStart(StartCheck(1))
GoStartListen == GoStart(StartListen(1))
GoStartTrack == GoStart(StartTrack(1))
GoStartReturn == GoStart(StartReturn(1))

\* mutant: the relay works once; a later signal gets the default disposition
\* and kills the process (exit status 2)
RelayedOnce(pc, code) == IF pc = "wait" THEN code ELSE 2

\* signal.Notify(quit, SIGINT, SIGTERM) stays in force until the process ends:
\* every such signal is relayed to quit and the process goes on
Relayed(pc, code) == code

\* SIGINT or SIGTERM is delivered: signal.Notify puts it in quit (capacity 1)
Signal ==
    /\ Alive /\ mainpc \notin {"init", "loaded"}
    /\ quit = 0
    /\ quit' = 1
    /\ exitCode' = Relayed(mainpc, exitCode)
    /\ UNCHANGED <<mainpc, cfg, serverVars>>

\* mutant: main does not wait for a signal
ReceivedAlways(q) == TRUE

\* <-quit returns once signal.Notify has put a signal in the channel
Received(q) == q = 1

\* <-quit; ctx := context.WithTimeout(..., cfg.Server.ShutdownTimeout);
\* srv.Shutdown(ctx)
MainShutdown ==
    /\ Alive /\ mainpc = "wait"
    /\ Received(quit)
    /\ quit' = 0
    /\ mainpc' = "shutdown"
    /\ \E expired \in BOOLEAN : ShutdownCall(expired)
    /\ UNCHANGED <<exitCode, cfg>>

\* mutant: main returns normally also when Shutdown failed
ExitCodeZero(result) == 0

\* if err := srv.Shutdown(ctx); err != nil { ...; os.Exit(1) }; else main returns
ExitCodeOf(result) == IF result = "nil" THEN 0 ELSE 1

\* Shutdown returned: os.Exit(1) on an error, else main returns
MainExit ==
    /\ Alive /\ mainpc = "shutdown"
    /\ sd.pc = "returned"
    /\ exitCode' = ExitCodeOf(sd.result)
    /\ mainpc' = "exited"
    /\ UNCHANGED <<quit, cfg, serverVars>>

\* what the server and its clients do while the process lives
Serving(A) == Alive /\ A /\ UNCHANGED mainVars

(***************************************************************************)
(* ECS encoder (logger/ecs.go)                                             *)
(***************************************************************************)
\* attribute values: a string, a time.Duration (n nanoseconds), an int64, or a
\* value encoding/json cannot marshal (a func)
Str(x) == [kind |-> "string", s |-> x, n |-> 0]
Dur(x) == [kind |-> "duration", s |-> "", n |-> x]
Int64(x) == [kind |-> "int64", s |-> "", n |-> x]
Func == [kind |-> "func", s |-> "", n |-> 0]

LevelInfo == 0
LevelError == 8
Levels == {LevelInfo, LevelError}

\* slog.Level.String() for the named levels
LevelString(l) ==
    CASE l = 0 - 4 -> "DEBUG" [] l = 0 -> "INFO" [] l = 4 -> "WARN" [] l = 8 -> "ERROR"

\* r.Time.UTC().Format(time.RFC3339Nano): the instant t in UTC, as text
FormatTime(t) == "T" \o Itoa(t) \o "Z"

NoAttrs == [x \in {} |-> Str("")]

\* attrs[k] = v on a Go map: the entry is added or overwritten
Put(attrs, k, v) == [x \in DOMAIN attrs \cup {k} |-> IF x = k THEN v ELSE attrs[x]]

\* mutant: the duration is stored as it came
DurationValueRaw(val) == val

\* if d, ok := val.(time.Duration); ok { d.Nanoseconds() } else { val }
DurationValue(val) == IF val.kind = "duration" THEN Int64(val.n) ELSE val

\* mutant: every key is written as it is, the table is not applied
mapAttributeNoTable(attrs, key, val) == Put(attrs, key, val)

\* func (h *ECSHandler) mapAttribute(attrs, key, val)
mapAttribute(attrs, key, val) ==
    CASE key = "method" -> Put(attrs, "http.request.method", val)
      [] key = "path" -> Put(attrs, "url.path", val)
      [] key = "status" -> Put(attrs, "http.response.status_code", val)
      [] key = "bytes" -> Put(attrs, "http.response.body.bytes", val)
      [] key = "duration" -> Put(attrs, "event.duration", DurationValue(val))
      [] key = "remote_addr" -> Put(attrs, "client.address", val)
      [] key = "request_id" -> Put(attrs, "trace.id", val)
      [] key = "error" -> Put(attrs, "error.message", val)
      [] key = "uptime" -> Put(attrs, "event.uptime", val)
      [] key = "port" -> Put(attrs, "server.port", val)
      [] key = "environment" -> Put(attrs, "service.environment", val)
      [] OTHER -> Put(attrs, key, val)

\* mutant: the callback returns false, so the iteration stops after one attribute
MapAttrsStopEarly(attrs, as) ==
    IF as = <<>> THEN attrs
    ELSE mapAttribute(attrs, Head(as).key, Head(as).val)

\* r.Attrs(func(a slog.Attr) bool { h.mapAttribute(attrs, a.Key, a.Value.Any()); return true })
RECURSIVE MapAttrs(_, _)
MapAttrs(attrs, as) ==
    IF as = <<>> THEN attrs
    ELSE MapAttrs(mapAttribute(attrs, Head(as).key, Head(as).val), Tail(as))

\* mutant: the service identity is not injected
RecordNoIdentity(h, r) ==
    LET a1 == Put(NoAttrs, "@timestamp", Str(FormatTime(r.time)))
        a2 == Put(a1, "ecs.version", Str(ECSVersion))
        a3 == Put(a2, "message", Str(r.message))
        a4 == Put(a3, "log.level", Str(LevelString(r.level)))
    IN MapAttrs(a4, r.attrs)

\* the map Handle builds before json.Marshal
Record(h, r) ==
    LET a1 == Put(NoAttrs, "@timestamp", Str(FormatTime(r.time)))
        a2 == Put(a1, "ecs.version", Str(ECSVersion))
        a3 == Put(a2, "message", Str(r.message))
        a4 == Put(a3, "log.level", Str(LevelString(r.level)))
        a5 == Put(a4, "service.name", Str(h.serviceName))
        a6 == Put(a5, "service.version", Str(h.version))
    IN MapAttrs(a6, r.attrs)

\* mutant: json.Marshal never fails
MarshalableAlways(rec) == TRUE

\* json.Marshal(attrs) fails on a value of an unsupported type
Marshalable(rec) == \A k \in DOMAIN rec : rec[k].kind # "func"

Bytes(rec) == [kind |-> "record", rec |-> rec]
Newline == [kind |-> "newline", rec |-> NoAttrs]

\* slog.NewJSONHandler(w, opts): the inner handler, with the attributes and
\* the open groups later WithAttrs / WithGroup calls give it
NewJSONHandler(w) == [w |-> w, attrs |-> <<>>, groups |-> <<>>]

\* the writers a caller can hand to NewECSHandler: os.Stdout or a buffer
Stdout == "os.Stdout"
Sinks == {Stdout, "buf"}

\* func NewECSHandler(w io.Writer, serviceName, version string) *ECSHandler
NewECSHandler(w, name, version) ==
    [handler |-> NewJSONHandler(w), serviceName |-> name, version |-> version]

\* (*slog.JSONHandler).WithAttrs: a copy holding the attributes as well, each
\* under the groups open at the time
JSONWithAttrs(j, as) ==
    [j EXCEPT !.attrs = @ \o [k \in 1 .. Len(as) |->
                                [key |-> as[k].key, val |-> as[k].val, groups |-> j.groups]]]

\* (*slog.JSONHandler).WithGroup: a copy with one more open group
JSONWithGroup(j, name) == [j EXCEPT !.groups = Append(@, name)]

\* mutant: the derived encoder loses the service identity
WithAttrsNoIdentity(h, as) ==
    [handler |-> JSONWithAttrs(h.handler, as), serviceName |-> "", version |-> ""]

\* func (h *ECSHandler) WithAttrs(attrs []slog.Attr) slog.Handler
WithAttrs(h, as) ==
    [handler |-> JSONWithAttrs(h.handler, as),
     serviceName |-> h.serviceName, version |-> h.version]

\* func (h *ECSHandler) WithGroup(name string) slog.Handler
WithGroup(h, name) ==
    [handler |-> JSONWithGroup(h.handler, name),
     serviceName |-> h.serviceName, version |-> h.version]

\* the events fed to the encoder
TableKeys ==
    {"method", "path", "status", "bytes", "duration", "remote_addr",
     "request_id", "error", "uptime", "port", "environment"}
OtherKeys == {"user", "service.name", "trace.id", "message"}
EventAttrs ==
    [key : TableKeys \cup OtherKeys, val : {Str("a"), Str("b")}]
        \cup {[key |-> "duration", val |-> Dur(7)], [key |-> "user", val |-> Func],
              [key |-> "uptime", val |-> Dur(7)]}
Events ==
    [time : {1}, level : Levels, message : {"m"},
     attrs : UNION {[1 .. n -> EventAttrs] : n \in 0 .. MaxAttrs}]

NoEvent == [time |-> 0, level |-> LevelInfo, message |-> "", attrs |-> <<>>]

Loggers == 1 .. NumLog

\* a goroutine about to call Handle: nothing written, nothing returned
NewLog == [pc |-> "ready", ret |-> "none", wrote |-> 0, failed |-> FALSE]

\* a request that has not reached the Logger middleware yet
NewRequestLog == [pc |-> "new", method |-> "", path |-> "", lines |-> <<>>]

InitLog ==
    /\ event = NoEvent
    /\ hdl = NewECSHandler(Stdout, ServiceName, ServiceVersion)
    /\ stdout = <<>>
    /\ logerr = "none"
    /\ logpc = "ready"
    /\ hdls = <<NewECSHandler(Stdout, ServiceName, ServiceVersion)>>
    /\ lg = [g \in Loggers |-> NewLog]
    /\ rq = [i \in Requests |-> NewRequestLog]
    /\ buf = <<>>

\* a log call reaches the handler with some record
InitLogEvent ==
    /\ event \in Events
    /\ hdl = NewECSHandler(Stdout, ServiceName, ServiceVersion)
    /\ stdout = <<>>
    /\ logerr = "none"
    /\ logpc = "ready"
    /\ hdls = <<NewECSHandler(Stdout, ServiceName, ServiceVersion)>>
    /\ lg = [g \in Loggers |-> NewLog]
    /\ rq = [i \in Requests |-> NewRequestLog]
    /\ buf = <<>>

\* func (h *ECSHandler) Handle(ctx, r) error
Handle ==
    /\ logpc = "ready"
    /\ LET rec == Record(hdl, event)
       IN IF Marshalable(rec)
          THEN /\ stdout' = stdout \o <<Bytes(rec), Newline>>
               /\ logerr' = "nil"
          ELSE /\ stdout' = stdout
               /\ logerr' = "err"
    /\ logpc' = "done"
    /\ UNCHANGED <<event, hdl, hdls, lg, rq, buf, metricsVars, writerVars, serverVars, mainVars>>

\* the events and the arguments used when encoders are derived
DerivedAttrs ==
    {[key |-> "request_id", val |-> Str("a")], [key |-> "user", val |-> Str("b")],
     [key |-> "path", val |-> Str("a")]}
GroupNames == {"http", "g"}
DeriveEvents ==
    [time : {1}, level : {LevelInfo}, message : {"m"},
     attrs : {<<>>} \cup {<<a>> : a \in [key : {"path", "user"}, val : {Str("c")}]}]

InitLogDerive ==
    /\ event \in DeriveEvents
    /\ hdl \in {NewECSHandler(w, ServiceName, ServiceVersion) : w \in Sinks}
    /\ stdout = <<>>
    /\ logerr = "none"
    /\ logpc = "ready"
    /\ hdls = <<hdl>>
    /\ lg = [g \in Loggers |-> NewLog]
    /\ rq = [i \in Requests |-> NewRequestLog]
    /\ buf = <<>>

\* logger.With(a): slog calls WithAttrs on the logger's handler hdls[i] and
\* keeps the handler it returns
DeriveAttrs(i, a) ==
    /\ logpc = "ready"
    /\ Len(hdls) <= MaxDerive
    /\ hdls' = Append(hdls, WithAttrs(hdls[i], <<a>>))
    /\ UNCHANGED <<event, hdl, stdout, logerr, logpc, lg, rq, buf,
                   metricsVars, writerVars, serverVars, mainVars>>

\* logger.WithGroup(name): slog calls WithGroup on the logger's handler hdls[i]
DeriveGroup(i, name) ==
    /\ logpc = "ready"
    /\ Len(hdls) <= MaxDerive
    /\ hdls' = Append(hdls, WithGroup(hdls[i], name))
    /\ UNCHANGED <<event, hdl, stdout, logerr, logpc, lg, rq, buf,
                   metricsVars, writerVars, serverVars, mainVars>>

\* the logger that is about to log holds handler hdls[i]
Bind(i) ==
    /\ logpc = "ready"
    /\ hdl # hdls[i]
    /\ hdl' = hdls[i]
    /\ UNCHANGED <<event, stdout, logerr, logpc, hdls, lg, rq, buf,
                   metricsVars, writerVars, serverVars, mainVars>>

\* the events logged while the sink may fail or be shared
SinkEvents ==
    DeriveEvents \cup
        {[time |-> 1, level |-> LevelError, message |-> "m",
          attrs |-> <<[key |-> "user", val |-> Func]>>]}

InitLogSink ==
    /\ event \in SinkEvents
    /\ hdl = NewECSHandler(Stdout, ServiceName, ServiceVersion)
    /\ stdout = <<>>
    /\ logerr = "none"
    /\ logpc = "ready"
    /\ hdls = <<NewECSHandler(Stdout, ServiceName, ServiceVersion)>>
    /\ lg = [g \in Loggers |-> NewLog]
    /\ rq = [i \in Requests |-> NewRequestLog]
    /\ buf = <<>>

\* os.Stdout.Write(...): the (n, err) it returns is discarded
WriteResult(ok) == "nil"

\* Handle in goroutine g up to its first write: build the map, json.Marshal
\* (return err), os.Stdout.Write(b). ok: the sink took the bytes; a failed
\* write delivers nothing.
HandleRecord(g) ==
    /\ lg[g].pc = "ready"
    /\ LET rec == Record(hdl, event)
       IN IF ~Marshalable(rec)
          THEN /\ lg' = [lg EXCEPT ![g].pc = "done", ![g].ret = "err"]
               /\ UNCHANGED stdout
          ELSE \E ok \in BOOLEAN :
                 /\ stdout' = IF ok THEN Append(stdout, Bytes(rec)) ELSE stdout
                 /\ lg' = [lg EXCEPT ![g].pc = IF WriteResult(ok) = "nil"
                                                THEN "newline" ELSE "done",
                                     ![g].ret = IF WriteResult(ok) = "nil"
                                                THEN "none" ELSE "err",
                                     ![g].wrote = IF ok THEN 1 ELSE 0,
                                     ![g].failed = ~ok]
    /\ UNCHANGED <<event, hdl, logerr, logpc, hdls, rq, buf,
                   metricsVars, writerVars, serverVars, mainVars>>

\* os.Stdout.Write([]byte("\n")); return nil
HandleNewline(g) ==
    /\ lg[g].pc = "newline"
    /\ \E ok \in BOOLEAN :
         /\ stdout' = IF ok THEN Append(stdout, Newline) ELSE stdout
         /\ lg' = [lg EXCEPT ![g].pc = "done",
                             ![g].ret = WriteResult(ok),
                             ![g].wrote = IF ok THEN @ + 1 ELSE @,
                             ![g].failed = @ \/ ~ok]
    /\ UNCHANGED <<event, hdl, logerr, logpc, hdls, rq, buf,
                   metricsVars, writerVars, serverVars, mainVars>>

(***************************************************************************)
(* One request through the Logger middleware and its handler: the log      *)
(* calls made on the process's logger (level Info, sink os.Stdout)         *)
(***************************************************************************)
LevelDebug == 0 - 4

\* mutant: the handler lets every level through
EnabledAll(level) == TRUE

\* func (h *ECSHandler) Enabled: h.handler.Enabled, the JSON handler built
\* with Level: slog.LevelInfo
Enabled(level) == level >= LevelInfo

\* logger.Debug / Info / Error(msg, attrs...): slog asks Enabled and then calls
\* Handle; what the call leaves on os.Stdout
LogLines(h, level, msg, attrs) ==
    LET r == [time |-> 1, level |-> level, message |-> msg, attrs |-> attrs]
    IN IF Enabled(level) /\ Marshalable(Record(h, r))
       THEN <<Bytes(Record(h, r)), Newline>>
       ELSE <<>>

\* the log calls made at each level, with attributes that can and cannot be
\* serialized
LevelWarn == 4
LevelEvents ==
    [time : {1}, level : {LevelDebug, LevelInfo, LevelWarn, LevelError},
     message : {"m"},
     attrs : {<<>>, <<[key |-> "user", val |-> Str("c")]>>,
              <<[key |-> "user", val |-> Func]>>}]

InitLogLevel ==
    /\ event \in LevelEvents
    /\ hdl = NewECSHandler(Stdout, ServiceName, ServiceVersion)
    /\ stdout = <<>>
    /\ logerr = "none"
    /\ logpc = "ready"
    /\ hdls = <<hdl>>
    /\ lg = [g \in Loggers |-> NewLog]
    /\ rq = [i \in Requests |-> NewRequestLog]
    /\ buf = <<>>

\* logger.Debug / Info / Warn / Error on a logger holding hdl: slog returns
\* at once when the handler is not Enabled for the level, else calls Handle
LogCall ==
    /\ logpc = "ready"
    /\ IF Enabled(event.level)
       THEN Handle
       ELSE /\ logpc' = "done"
            /\ UNCHANGED <<event, hdl, stdout, logerr, hdls, lg, rq, buf,
                           metricsVars, writerVars, serverVars, mainVars>>

\* chimiddleware.RequestID / GetReqID: the id of request i
ReqID(i) == "req-" \o Itoa(i)

\* the handlers' first statement: h.logger.Debug(msg, request_id)
HandlerMessage(path) ==
    CASE path = "/ping" -> "ping request received"
      [] path = "/health" -> "health check"
      [] path = "/ready" -> "readiness check"
HandlerAttrs(i) == <<[key |-> "request_id", val |-> Str(ReqID(i))]>>

\* json.NewEncoder(w).Encode(data): the few dozen bytes of the body stay in
\* net/http's response buffer, so Write reports no error even when the peer
\* has gone (broken)
EncodeResult(broken) == "nil"

\* the status the chain gives a request whose handler (if any) returns normally
StatusOf(method, path) ==
    NextServeHTTP(method, path,
                  [ops |-> IF path \in AnyRoutes THEN <<WR>> ELSE <<WH(StatusOK), WR>>,
                   outcome |-> "return", timedOut |-> FALSE, upgrade |-> FALSE]).statusCode

\* the attributes of the Logger middleware's event
LoggerAttrs(i, method, path) ==
    <<[key |-> "method", val |-> Str(method)],
      [key |-> "path", val |-> Str(path)],
      [key |-> "status", val |-> Int64(StatusOf(method, path))],
      [key |-> "bytes", val |-> Int64(1)],
      [key |-> "duration", val |-> Dur(1)],
      [key |-> "remote_addr", val |-> Str("addr")],
      [key |-> "request_id", val |-> Str(ReqID(i))]>>

\* request i leaves lines on os.Stdout
Emit(i, lines, pc) ==
    /\ rq' = [rq EXCEPT ![i].pc = pc, ![i].lines = @ \o lines]
    /\ stdout' = stdout \o lines
    /\ UNCHANGED <<event, hdl, logerr, logpc, hdls, lg, buf,
                   metricsVars, writerVars, serverVars, mainVars>>

\* Logger: the request arrives, next.ServeHTTP(ww, r); the router picks one of
\* the three handlers, promhttp or chi's 404 / 405 handler
LoggerServe(i) ==
    /\ rq[i].pc = "new"
    /\ \E method \in Methods, path \in Paths :
         rq' = [rq EXCEPT ![i] =
                   [pc |-> IF method = "GET" /\ path \in GetRoutes
                           THEN "handler" ELSE "after",
                    method |-> method, path |-> path, lines |-> <<>>]]
    /\ UNCHANGED <<event, hdl, stdout, logerr, logpc, hdls, lg, buf,
                   metricsVars, writerVars, serverVars, mainVars>>

\* Ping / Health / Ready: h.logger.Debug(...)
HandlerDebug(i) ==
    /\ rq[i].pc = "handler"
    /\ Emit(i, LogLines(hdl, LevelDebug, HandlerMessage(rq[i].path), HandlerAttrs(i)),
            "write")

\* writeJSON: WriteHeader, Encode, and h.logger.Error when Encode failed
HandlerWriteJSON(i) ==
    /\ rq[i].pc = "write"
    /\ \E broken \in BOOLEAN :
         Emit(i, IF EncodeResult(broken) # "nil"
                 THEN LogLines(hdl, LevelError, "failed to encode response",
                               <<[key |-> "error", val |-> Str("e")]>>)
                 ELSE <<>>,
              "after")

\* Logger, after next.ServeHTTP returned: one Info event with the request's
\* attributes
LoggerEmit(i) ==
    /\ rq[i].pc = "after"
    /\ Emit(i, LogLines(hdl, LevelInfo, "request completed",
                        LoggerAttrs(i, rq[i].method, rq[i].path)),
            "done")

\* the record of the line Handle wrote
Encoded == logpc = "done" /\ logerr = "nil"
Out == stdout[1].rec

(***************************************************************************)
(* Specifications                                                          *)
(***************************************************************************)
Init == InitMetrics /\ InitWriter /\ InitServer /\ InitMain /\ InitLog

Next == \E i \in Requests : Serve(i) \/ Observe(i) \/ Inc(i)

\* any sequence of Start and Shutdown calls on one Server
Lib(A) == A /\ UNCHANGED <<metricsVars, writerVars, mainVars, logVars>>

NextServer ==
    \/ \E s \in StartIds : Lib(StartCall(s))
    \/ \E s \in StartIds : Lib(StartCheck(s))
    \/ \E s \in StartIds : Lib(StartListen(s))
    \/ \E s \in StartIds : Lib(StartTrack(s))
    \/ \E s \in StartIds : Lib(StartReturn(s))
    \/ \E s \in StartIds, c \in Conns : Lib(Accept(s, c))
    \/ \E c \in Conns : Lib(RequestComplete(c))
    \/ \E c \in Conns : Lib(KeepAliveRequest(c))
    \/ \E expired \in BOOLEAN : Lib(sd.n < MaxShutdown /\ ShutdownCall(expired))
    \/ Lib(ShutdownPoll)
    \/ Lib(DeadlineElapse)

SpecServer == Init /\ [][NextServer]_vars

\* the process: main, its Start goroutine, the signal, the clients
Proc(A) == A /\ UNCHANGED <<metricsVars, writerVars, logVars>>

NextMain ==
    \/ Proc(MainLoad)
    \/ Proc(MainGo)
    \/ Proc(GoStartCheck)
    \/ Proc(GoStartListen)
    \/ Proc(GoStartTrack)
    \/ Proc(GoStartReturn)
    \/ Proc(Signal)
    \/ Proc(MainShutdown)
    \/ Proc(MainExit)
    \/ \E c \in Conns : Proc(Serving(Accept(1, c)))
    \/ \E c \in Conns : Proc(Serving(RequestComplete(c)))
    \/ \E c \in Conns : Proc(Serving(KeepAliveRequest(c)))
    \/ Proc(Serving(ShutdownPoll))
    \/ Proc(Serving(DeadlineElapse))

SpecMain == Init /\ [][NextMain]_vars

\* the main goroutine runs once Shutdown has returned
FairSpecMain == SpecMain /\ WF_vars(Proc(MainExit))

\* concurrent requests through Metrics and the shared series
Spec == Init /\ [][Next]_vars

NextWriter ==
    \/ HandlerCall \/ HandlerEnd \/ CeilingElapse \/ TimeoutDefer
    \/ RecovererDefer \/ ServeRecover \/ MetricsRead

\* one request's writer calls in order
SpecWriter == Init /\ [][NextWriter]_vars

\* one event through the encoder
InitEncoder == InitMetrics /\ InitWriter /\ InitServer /\ InitMain /\ InitLogEvent

SpecLog == InitEncoder /\ [][Handle]_vars

\* encoders derived with WithAttrs / WithGroup, then one event through one of them
InitDerive == InitMetrics /\ InitWriter /\ InitServer /\ InitMain /\ InitLogDerive

NextDerive ==
    \/ \E i \in 1 .. Len(hdls), a \in DerivedAttrs : DeriveAttrs(i, a)
    \/ \E i \in 1 .. Len(hdls), name \in GroupNames : DeriveGroup(i, name)
    \/ \E i \in 1 .. Len(hdls) : Bind(i)
    \/ Handle

SpecDerive == InitDerive /\ [][NextDerive]_vars

\* goroutines logging the event concurrently to the one os.Stdout
InitSink == InitMetrics /\ InitWriter /\ InitServer /\ InitMain /\ InitLogSink

NextSink ==
    \/ \E g \in Loggers : HandleRecord(g)
    \/ \E g \in Loggers : HandleNewline(g)

SpecSink == InitSink /\ [][NextSink]_vars

\* concurrent requests through Logger and the handlers, logging to os.Stdout
NextReqLog ==
    \/ \E i \in Requests : LoggerServe(i)
    \/ \E i \in Requests : HandlerDebug(i)
    \/ \E i \in Requests : HandlerWriteJSON(i)
    \/ \E i \in Requests : LoggerEmit(i)

SpecReqLog == Init /\ [][NextReqLog]_vars

\* log calls at every level on the logger of logger.New and on derived ones
InitLevel == InitMetrics /\ InitWriter /\ InitServer /\ InitMain /\ InitLogLevel

NextLevel ==
    \/ \E i \in 1 .. Len(hdls), a \in DerivedAttrs : DeriveAttrs(i, a)
    \/ \E i \in 1 .. Len(hdls), name \in GroupNames : DeriveGroup(i, name)
    \/ \E i \in 1 .. Len(hdls) : Bind(i)
    \/ LogCall

SpecLevel == InitLevel /\ [][NextLevel]_vars

(***************************************************************************)
(* Claims                                                                  *)
(***************************************************************************)
\* C1: every request whose chain returned to Metrics gets exactly one
\* http_request_duration_seconds observation and exactly one
\* http_requests_total increment, both on its (method, route pattern, status)
\* labelset: none before the call returned, never more than one of each, and
\* both done once the closure has finished.
C1_ExactlyOnePair ==
    \A i \in Requests :
        /\ req[i].nObserve <= 1 /\ req[i].nInc <= 1
        /\ req[i].pc \in {"new", "aborted"} => req[i].nObserve = 0 /\ req[i].nInc = 0
        /\ req[i].pc = "done" =>
              /\ req[i].nObserve = 1 /\ req[i].nInc = 1
              /\ req[i].observed = req[i].counted
              /\ req[i].counted =
                    <<req[i].method, RoutePattern(req[i].method, req[i].path),
                      Itoa(req[i].statusCode)>>

\* a request whose handler panicked, recovered by Recoverer, is done
C1_Witness ==
    \E i \in Requests :
        /\ req[i].pc = "done"
        /\ req[i].counted = <<"GET", "/ping", "500">>

Counted(ls) == {i \in Requests : req[i].counted = ls}
SeriesNames == DOMAIN HttpRequestsTotal \cup {req[i].counted : i \in Requests}

\* C2: under every interleaving of concurrent requests the value of each
\* http_requests_total series is exactly the number of requests that have
\* incremented it (N once N same-labelset requests completed: no lost update),
\* and no step decreases the value of a series.
C2_NoLostUpdate ==
    /\ [](\A ls \in SeriesNames \ {NoLabels} :
            Value(HttpRequestsTotal, ls) = Cardinality(Counted(ls)))
    /\ [][\A ls \in DOMAIN HttpRequestsTotal :
            Value(HttpRequestsTotal', ls) >= HttpRequestsTotal[ls]]_vars

\* all N requests completed on the same labelset, and the series reads N
C2_Witness ==
    /\ \A i \in Requests :
          req[i].pc = "done" /\ req[i].counted = <<"GET", "/ping", "200">>
    /\ Value(HttpRequestsTotal, <<"GET", "/ping", "200">>) = NumReq

RECURSIVE FirstWriteHeader(_)
FirstWriteHeader(ops) ==
    IF ops = <<>> THEN 0
    ELSE IF Head(ops).op = "WriteHeader" THEN Head(ops).code
    ELSE FirstWriteHeader(Tail(ops))

\* C3: the status Metrics records is 200 when no WriteHeader call was made on
\* the proxy, and otherwise the code of the first WriteHeader call; a later
\* call does not change it (first write wins).
C3_FirstWriteWins ==
    chain = "done" =>
        recorded = IF FirstWriteHeader(made) = 0 THEN StatusOK
                   ELSE FirstWriteHeader(made)


\* The lifecycle state of spec section 3, read off net/http's Server
ServerState ==
    IF ~inShutdown
    THEN IF listeners = {} THEN "Created" ELSE "Running"
    ELSE IF Active # {} \/ sd.pc = "waiting" THEN "ShuttingDown" ELSE "Stopped"

Rank(st) ==
    CASE st = "Created" -> 0 [] st = "Running" -> 1
      [] st = "ShuttingDown" -> 2 [] st = "Stopped" -> 3

\* C4: under any sequence of Start and Shutdown calls the state only moves
\* forward along Created, Running, ShuttingDown, Stopped, and from the first
\* Shutdown call on no listener is tracked and no connection is accepted,
\* also when Start is called afterwards.
C4_StateMonotonic ==
    /\ [][Rank(ServerState') >= Rank(ServerState)]_vars
    /\ [](sd.n > 0 => listeners = {})
    /\ [][sd.n > 0 => \A c \in Conns : conn[c] = "none" => conn'[c] = "none"]_vars

\* the server ran and served, was shut down, and a Start call made after the
\* Shutdown has returned nil without accepting anything
C4_Witness ==
    /\ ServerState = "Stopped"
    /\ \E c \in Conns : conn[c] = "closed"
    /\ \E c \in Conns : conn[c] = "none"
    /\ \E s \in StartIds : start[s].late /\ start[s].pc = "returned"

\* C5: whenever Shutdown has returned nil, every request that was running
\* when it was called has completed and its connection is closed, no request
\* is running, no listener is tracked, and no connection is accepted from
\* then on.
C5_ShutdownSuccess ==
    /\ [](sd.pc = "returned" /\ sd.result = "nil" =>
            /\ inflight = {}
            /\ \A c \in sd.atCall : conn[c] = "closed"
            /\ Active = {}
            /\ listeners = {})
    /\ [][sd.pc = "returned" /\ sd.result = "nil" =>
            \A c \in Conns : conn[c] = "none" => conn'[c] = "none"]_vars

\* Shutdown waited for a running request and then returned nil
C5_Witness ==
    /\ sd.pc = "returned" /\ sd.result = "nil"
    /\ sd.atCall # {}
    /\ \A c \in sd.atCall : conn[c] = "closed"

\* a request that ran at the Shutdown call was still running at the deadline
SlowAtDeadline == ctxDone /\ inflight # {}

\* C6: if a request is still running when the shutdown deadline elapses,
\* Shutdown returns the timeout error at that point, and the process then
\* exits (with code 1) whether or not the slow handler ever finishes.
C6_DeadlineBoundsExit ==
    /\ [](SlowAtDeadline => sd.pc = "returned" /\ sd.result = "timeout")
    /\ (SlowAtDeadline ~> exitCode = 1)

\* main has exited with 1 after the deadline while the handler still runs
C6_Witness ==
    /\ SlowAtDeadline
    /\ mainpc = "exited" /\ exitCode = 1
    /\ \E c \in inflight : conn[c] = "active"

\* C7 as stated: after the signal the process exits 0 exactly when every
\* request in flight at the signal finished before the shutdown deadline, and
\* non-zero when the deadline was exceeded or Start reported a failure.
C7_ExitZeroIffDrainedInTime ==
    /\ mainpc = "exited" => (exitCode = 0 <=> inflight = {})
    /\ start[1].result = "err" => exitCode = 1

\* C7 as amended: main exits 0 exactly when Shutdown returned nil; exit code 0
\* implies that every request in flight at the signal completed before the
\* deadline; a request still running at the deadline makes main exit 1; a
\* Start error ends the process with 1.
C7_ExitCodes ==
    /\ mainpc = "exited" => (exitCode = 0 <=> sd.result = "nil")
    /\ exitCode = 0 =>
          /\ mainpc = "exited"
          /\ inflight = {}
          /\ \A c \in sd.atCall : conn[c] = "closed"
    /\ mainpc = "exited" /\ SlowAtDeadline => exitCode = 1
    /\ start[1].result = "err" => exitCode = 1

\* a request was in flight at the signal, finished, and main exited 0
C7_Witness ==
    /\ mainpc = "exited" /\ exitCode = 0
    /\ sd.atCall # {}


\* the AttributeMapper table of spec section 4.1
C8_Table(key) ==
    CASE key = "method" -> "http.request.method"
      [] key = "path" -> "url.path"
      [] key = "status" -> "http.response.status_code"
      [] key = "bytes" -> "http.response.body.bytes"
      [] key = "duration" -> "event.duration"
      [] key = "remote_addr" -> "client.address"
      [] key = "request_id" -> "trace.id"
      [] key = "error" -> "error.message"
      [] key = "uptime" -> "event.uptime"
      [] key = "port" -> "server.port"
      [] key = "environment" -> "service.environment"
      [] OTHER -> key

AttrIdx == 1 .. Len(event.attrs)

\* C8: for every attribute key the encoder meets, mapAttribute writes exactly
\* one entry, under the canonical name the table gives for a table key and
\* under the key itself for any other key; it leaves the other entries alone
\* and never fails.
C8_MapperMatchesTable ==
    \A i \in AttrIdx :
        LET a == event.attrs[i]
            before == MapAttrs(NoAttrs, SubSeq(event.attrs, 1, i - 1))
            after == mapAttribute(before, a.key, a.val)
        IN /\ DOMAIN after = DOMAIN before \cup {C8_Table(a.key)}
           /\ \A k \in DOMAIN before \ {C8_Table(a.key)} : after[k] = before[k]
           /\ DOMAIN mapAttribute(NoAttrs, a.key, a.val) = {C8_Table(a.key)}

\* an event with a table key and a key outside the table has been encoded
C8_Witness ==
    /\ Encoded
    /\ \E i, j \in AttrIdx :
          /\ event.attrs[i].key = "request_id"
          /\ event.attrs[j].key = "user"
    /\ {"trace.id", "user"} \subseteq DOMAIN Out

FixedKeys ==
    {"@timestamp", "ecs.version", "message", "log.level", "service.name",
     "service.version"}

\* C9 as stated: every encoded record has the six fixed keys, service.name and
\* service.version hold the identity the encoder was built with and message
\* holds the event's message, whatever attributes the event carries.
C9_FixedFieldsKeepValues ==
    Encoded =>
        /\ FixedKeys \subseteq DOMAIN Out
        /\ Out["service.name"] = Str(hdl.serviceName)
        /\ Out["service.version"] = Str(hdl.version)
        /\ Out["message"] = Str(event.message)

\* the last attribute of the event written under output key k, 0 when none is
LastWriter(k) ==
    LET w == {i \in AttrIdx : C8_Table(event.attrs[i].key) = k}
    IN IF w = {} THEN 0 ELSE CHOOSE i \in w : \A j \in w : j <= i

FixedValue(k) ==
    CASE k = "service.name" -> Str(hdl.serviceName)
      [] k = "service.version" -> Str(hdl.version)
      [] k = "message" -> Str(event.message)

\* C9 as amended: every encoded record has the six fixed keys; service.name,
\* service.version and message hold the encoder's identity and the event's
\* message unless an attribute of the event is written under that same key,
\* and then they hold the value of the last such attribute.
C9_FixedFields ==
    Encoded =>
        /\ FixedKeys \subseteq DOMAIN Out
        /\ \A k \in {"service.name", "service.version", "message"} :
              Out[k] = IF LastWriter(k) = 0 THEN FixedValue(k)
                       ELSE event.attrs[LastWriter(k)].val

\* an event without a colliding attribute, and one with, have been encoded
C9_Witness ==
    /\ Encoded
    /\ Len(event.attrs) = MaxAttrs
    /\ LastWriter("message") # 0
    /\ LastWriter("service.name") = 0
    /\ Out["service.name"] = Str(ServiceName)

Unmapped(i) == event.attrs[i].key \notin TableKeys

\* C10 as stated: each attribute whose key is not in the table appears in the
\* record under its own key with its own value, whatever else the event carries.
C10_UnmappedKept ==
    Encoded =>
        \A i \in AttrIdx :
            Unmapped(i) =>
                /\ event.attrs[i].key \in DOMAIN Out
                /\ Out[event.attrs[i].key] = event.attrs[i].val

\* C10 as amended: the key of each attribute outside the table is a key of
\* the record, and it holds that attribute's value unless a later attribute
\* of the event is written under the same output key (the same key again, or
\* a table key whose canonical name it is).
C10_UnmappedKeptUnlessOverwritten ==
    Encoded =>
        \A i \in AttrIdx :
            Unmapped(i) =>
                /\ event.attrs[i].key \in DOMAIN Out
                /\ LastWriter(event.attrs[i].key) = i =>
                      Out[event.attrs[i].key] = event.attrs[i].val

\* an unmapped attribute followed by a mapped one was encoded, both kept
C10_Witness ==
    /\ Encoded
    /\ Len(event.attrs) = MaxAttrs
    /\ event.attrs[1] = [key |-> "user", val |-> Str("a")]
    /\ event.attrs[MaxAttrs].key = "path"
    /\ Out["user"] = Str("a")

\* the output key mapAttribute gives an attribute
MappedKey(a) == CHOOSE k \in DOMAIN mapAttribute(NoAttrs, a.key, a.val) : TRUE

\* C11: every record encoded by an encoder derived with WithAttrs(A) has, for
\* each attribute of A, that attribute's mapped key.
C11_DerivedAttrsEncoded ==
    Encoded =>
        \A k \in 1 .. Len(hdl.handler.attrs) :
            hdl.handler.attrs[k].groups = <<>> =>
                MappedKey(hdl.handler.attrs[k]) \in DOMAIN Out

\* C12: the attributes of an event encoded by an encoder derived with
\* WithGroup(name) are qualified by the group, so its record does not have
\* the keys the root encoder gives the same event.
C12_GroupQualifiesKeys ==
    (Encoded /\ hdl.handler.groups # <<>> /\ hdl.handler.attrs = <<>>
        /\ event.attrs # <<>>) =>
        DOMAIN Out # DOMAIN Record(hdls[1], event)

\* C13: a WithAttrs or WithGroup call leaves every encoder that exists as it
\* is, so each encodes every event as before, and every encoder has the
\* service name and version of the root.
C13_ParentUnchanged ==
    /\ [][\A i \in 1 .. Len(hdls) :
            /\ hdls'[i] = hdls[i]
            /\ \A e \in DeriveEvents : Record(hdls'[i], e) = Record(hdls[i], e)]_vars
    /\ [](\A i \in 1 .. Len(hdls) :
            /\ hdls[i].serviceName = hdls[1].serviceName
            /\ hdls[i].version = hdls[1].version)

\* an encoder derived from a derived one exists, and the root encoded an event
C13_Witness ==
    /\ Len(hdls) = 3
    /\ hdls[3].handler.attrs # <<>> /\ hdls[3].handler.groups # <<>>
    /\ Encoded /\ hdl = hdls[1]
    /\ Out = Record(NewECSHandler(Stdout, ServiceName, ServiceVersion), event)

\* C14: Handle returns nil only when the record and its line separator were
\* both written to the sink.
C14_WriteFailureReported ==
    \A g \in Loggers :
        lg[g].pc = "done" /\ lg[g].ret = "nil" => lg[g].wrote = 2 /\ ~lg[g].failed

\* C15: while no write fails, every record on the output stream is directly
\* followed by its line separator, or is the last write so far.
C15_CompleteLines ==
    (\A g \in Loggers : ~lg[g].failed) =>
        \A k \in 1 .. Len(stdout) - 1 :
            stdout[k].kind = "record" => stdout[k + 1].kind = "newline"

\* a Shutdown call made after an earlier one has returned
SecondShutdownCall == sd.n >= 1 /\ sd'.n = sd.n + 1

C17_ShutdownBeforeStartNoOp ==
    \A s \in StartIds :
        (sd.n = 1 /\ start[s].late /\ \A t \in StartIds \ {s} : start[t].pc = "idle") =>
            /\ sd.pc = "returned" /\ sd.result = "nil"
            /\ ~(start[s].pc = "returned" /\ start[s].result = "nil")

\* i and j are reads of GET /metrics, i finished before j's handler ran, and
\* every other request finished before i's handler ran or began after j's
Consecutive(i, j) ==
    /\ i # j /\ scraped[i].taken /\ scraped[j].taken
    /\ i \in scraped[j].before
    /\ \A k \in Requests \ {i, j} : k \in scraped[i].before \/ k \notin scraped[j].started

\* C18 as stated: two consecutive reads of GET /metrics return the same
\* value for every series.
C18_SnapshotIdempotent ==
    \A i, j \in Requests :
        Consecutive(i, j) =>
            /\ scraped[j].total = scraped[i].total
            /\ scraped[j].duration = scraped[i].duration

\* C18 amended: the second of two consecutive reads returns, for every
\* series, the value the first returned, except the series labelled with the
\* first read itself, which is one higher in the counter and in the histogram.
C18_SnapshotUpToOwnRead ==
    \A i, j \in Requests :
        Consecutive(i, j) =>
            \A ls \in DOMAIN scraped[i].total \cup DOMAIN scraped[j].total
                        \cup DOMAIN scraped[i].duration \cup DOMAIN scraped[j].duration
                        \cup {req[i].counted, req[i].observed} :
                /\ Value(scraped[j].total, ls) =
                      Value(scraped[i].total, ls) + IF ls = req[i].counted THEN 1 ELSE 0
                /\ Value(scraped[j].duration, ls) =
                      Value(scraped[i].duration, ls) + IF ls = req[i].observed THEN 1 ELSE 0

\* two consecutive reads, the second one showing the first
C18_Witness ==
    \E i, j \in Requests :
        /\ Consecutive(i, j)
        /\ Value(scraped[i].total, <<"GET", "/metrics", "200">>) = 0
        /\ Value(scraped[j].total, <<"GET", "/metrics", "200">>) = 1

\* C19: the endpoint label of every series is a registered route pattern or
\* the empty pattern, and of every request that was recorded it is the pattern
\* of the route that matched, whatever the request path was.
C19_EndpointIsRoutePattern ==
    /\ \A ls \in DOMAIN HttpRequestsTotal \cup DOMAIN HttpDuration :
          ls[2] \in GetRoutes \cup AnyRoutes \cup {""}
    /\ \A i \in Requests :
          req[i].pc = "done" =>
              /\ req[i].counted[2] = req[i].observed[2]
              /\ req[i].counted[2] =
                    IF Matched(req[i].method, req[i].path) THEN req[i].path ELSE ""

\* a request for a path no route matches was recorded under the empty pattern
C19_Witness ==
    \E i \in Requests :
        /\ req[i].pc = "done" /\ req[i].path = "/x"
        /\ <<"GET", "", "404">> \in DOMAIN HttpRequestsTotal
        /\ <<"GET", "", "404">> \in DOMAIN HttpDuration

\* C20: the writer under the proxy receives exactly the WriteHeader and Write
\* calls made on the proxy, with the same arguments, in the same order.
C20_CallsForwarded == ww.calls = made

\* a handler made a WriteHeader and a Write call and the chain completed
C20_Witness ==
    /\ chain = "done"
    /\ made = <<WH(StatusNotFound), WR>>
    /\ ww.calls = <<WH(StatusNotFound), WR>>
    /\ ww.wrote = StatusNotFound

\* the status net/http sends for a sequence of calls: that of the first call
ClientStatus(ops) ==
    IF ops = <<>> THEN 0
    ELSE IF ops[1].op = "WriteHeader" THEN ops[1].code ELSE StatusOK

\* Recoverer handled the panic and called WriteHeader(500) on the proxy
RecovererWrote ==
    /\ outcome = "panic"
    /\ made # <<>> /\ made[Len(made)] = WH(StatusInternalServerError)

\* C21 as stated: when the handler panicked, the client got a 5xx status, the
\* sample was recorded with a 5xx status and the process is alive.
C21_PanicGives5xx ==
    (outcome \in {"panic", "abort"} /\ chain \in {"done", "closed"}) =>
        /\ ww.wrote \in 500 .. 599
        /\ recorded \in 500 .. 599
        /\ exitCode = NoExit

\* C21 amended: a panic never ends the process; when Recoverer handled it the
\* sample is recorded with 500 and the client has the status of the first call
\* made on the writer (500 when nothing was written before); a re-panicked
\* http.ErrAbortHandler leaves no sample.
C21_PanicContained ==
    /\ exitCode = NoExit
    /\ (chain = "done" /\ RecovererWrote) =>
          /\ recorded = StatusInternalServerError
          /\ ww.wrote = ClientStatus(made)
          /\ Len(made) = 1 => ww.wrote = StatusInternalServerError
    /\ chain \in {"aborted", "closed"} => outcome = "abort" /\ recorded = 0

\* the handler wrote 200 and panicked: the client keeps 200, the sample says 500
C21_Witness ==
    /\ chain = "done" /\ outcome = "panic"
    /\ made = <<WH(StatusOK), WH(StatusInternalServerError)>>
    /\ ww.wrote = StatusOK /\ recorded = StatusInternalServerError

\* C24: once config.Load has failed, the process has exited with code 1, no
\* Start call was made, no listener exists and no connection was accepted;
\* Load fails exactly for a PORT that is not a decimal integer.
C24_InvalidConfigExits ==
    /\ cfg.err =>
          /\ mainpc = "failed" /\ exitCode = 1
          /\ \A s \in StartIds : start[s].pc = "idle"
          /\ listeners = {} /\ sd.n = 0
          /\ \A c \in Conns : conn[c] = "none"
    /\ cfg.loaded => (cfg.err <=> cfg.port \in {<<"a", "b", "c">>, <<"8", "x">>})

\* PORT=abc: main exited with code 1
C24_Witness ==
    /\ cfg.loaded /\ cfg.err /\ cfg.port = <<"a", "b", "c">>
    /\ mainpc = "failed" /\ exitCode = 1

\* C28: once the 60 s ceiling has passed, a handler that is still running
\* makes no further call: it ends at once.
C28_CeilingAbortsHandler ==
    [][(ceiling /\ chain = "handler") => made' = made]_vars

(***************************************************************************)
(* C23: the counter series of GET /ping 200 and the /metrics read          *)
(***************************************************************************)
PingOK == <<"GET", "/ping", Itoa(StatusOK)>>

\* request i performs its Inc in this step
IncStep(i) == req[i].pc = "observed" /\ req'[i].pc = "done"

\* every series but ls has the same value before and after the step
OthersUnchanged(ls) ==
    \A x \in (DOMAIN HttpRequestsTotal \cup DOMAIN HttpRequestsTotal') \ {ls} :
        Value(HttpRequestsTotal', x) = Value(HttpRequestsTotal, x)

\* a completed request raises its own series by exactly 1 and no other
IncFrame ==
    \A i \in Requests :
        IncStep(i) =>
            /\ Value(HttpRequestsTotal', IncLabels(req[i])) =
                   Value(HttpRequestsTotal, IncLabels(req[i])) + 1
            /\ OthersUnchanged(IncLabels(req[i]))
            /\ req[i].path = "/metrics" => IncLabels(req[i]) # PingOK
            /\ (req[i].method = "GET" /\ req[i].path = "/ping"
                    /\ req[i].statusCode = StatusOK) => IncLabels(req[i]) = PingOK

\* no other step of the program touches the counter
NoIncFrame ==
    (\A i \in Requests : ~IncStep(i)) => HttpRequestsTotal' = HttpRequestsTotal

\* a /metrics response shows one increment per GET /ping 200 completed before it
ReadShowsPing ==
    \A j \in Requests :
        scraped[j].taken =>
            Value(scraped[j].total, PingOK) =
                Cardinality({k \in scraped[j].before : req[k].counted = PingOK})

\* C23: a completed GET /ping answered 200 adds exactly 1 to
\* http_requests_total{GET,/ping,200} and changes no other series; a later
\* GET /metrics shows the increment and its own count goes to another series.
C23_PingIncrementsOneSeries ==
    /\ []ReadShowsPing
    /\ [][IncFrame /\ NoIncFrame]_vars

\* one GET /ping 200 completed, then a GET /metrics read it and completed too
C23_Witness ==
    \E i, j \in Requests :
        /\ req[i].pc = "done" /\ req[i].counted = PingOK
        /\ req[j].pc = "done" /\ req[j].path = "/metrics"
        /\ scraped[j].taken /\ i \in scraped[j].before
        /\ Value(scraped[j].total, PingOK) = 1
        /\ Value(HttpRequestsTotal, PingOK) = 1
        /\ Cardinality(DOMAIN HttpRequestsTotal) = 2

(***************************************************************************)
(* C25: what Start returns                                                 *)
(***************************************************************************)
\* C25: Start returns only when serving is over; it returns a non-nil error
\* exactly when ListenAndServe failed for another reason than shutdown (here:
\* the bind failed), and nil when ListenAndServe ended with ErrServerClosed,
\* which happens only once Shutdown was called.
C25_StartReportsErrors ==
    /\ [](\A s \in StartIds :
            start[s].pc = "returned" =>
                /\ start[s].err \in {"bind", "ErrServerClosed"}
                /\ start[s].result = "err" <=> start[s].err = "bind"
                /\ start[s].err = "ErrServerClosed" =>
                       start[s].result = "nil" /\ inShutdown /\ sd.n >= 1)
    /\ [][\A s \in StartIds :
            (start[s].pc \in {"serving", "closed"} /\ start'[s].pc = "returned") =>
                inShutdown /\ start'[s].result = "nil"]_vars
    /\ [][\A s \in StartIds :
            (start[s].pc = "serving" /\ start'[s].pc # "serving") => inShutdown']_vars

\* one Start call served until Shutdown and returned nil, another failed to bind
C25_Witness ==
    \E s, u \in StartIds :
        /\ start[s].pc = "returned" /\ start[s].err = "ErrServerClosed"
        /\ start[s].result = "nil" /\ ~start[s].late
        /\ start[u].pc = "returned" /\ start[u].err = "bind" /\ start[u].result = "err"

(***************************************************************************)
(* C26, C27: Shutdown's timeout and who calls Shutdown                     *)
(***************************************************************************)
\* C26: when Shutdown has returned the timeout error, no handler is running
\* any more and no connection of the server is open.
C26_TimeoutStopsRequests ==
    (sd.pc = "returned" /\ sd.result = "timeout") =>
        /\ Active = {}
        /\ \A c \in Conns : conn[c] \in {"none", "closed"}

\* C27: in the process Shutdown is called at most once, and only by main after
\* a signal was received; when Start fails the process exits with code 1 in
\* the same step without any Shutdown call, and an exited process calls nothing.
C27_ShutdownOnlyBySignal ==
    /\ [](sd.n <= 1)
    /\ [](inShutdown => sd.n = 1)
    /\ [][sd'.n > sd.n => (quit = 1 /\ mainpc = "wait" /\ mainpc' = "shutdown")]_vars
    /\ [][(start[1].result # "err" /\ start'[1].result = "err") =>
              (exitCode' = 1 /\ sd' = sd /\ inShutdown' = inShutdown)]_vars
    /\ [][~Alive => (sd' = sd /\ inShutdown' = inShutdown)]_vars

\* a signal arrived while the server was serving and main called Shutdown
C27_Witness ==
    /\ sd.n = 1 /\ inShutdown /\ quit = 0
    /\ mainpc = "shutdown"
    /\ start[1].pc = "closed"

(***************************************************************************)
(* C29, C30: serialization failure, and where the line goes                *)
(***************************************************************************)
\* the map built for the event holds a value that has no JSON form
Unserializable == \E k \in DOMAIN Record(hdl, event) : Record(hdl, event)[k].kind = "func"

\* C29: when the event cannot be serialized Handle returns an error, nothing
\* at all has been written for the event, and the process goes on; an event
\* that can be serialized is not answered with an error.
C29_SerializationFailure ==
    logpc = "done" =>
        /\ Unserializable =>
              /\ logerr = "err"
              /\ stdout = <<>> /\ buf = <<>>
              /\ exitCode = NoExit
        /\ logerr = "err" => Unserializable

\* an Error event with a func attribute was refused
C29_Witness ==
    /\ logpc = "done" /\ logerr = "err"
    /\ event.level = LevelError
    /\ \E k \in 1 .. Len(event.attrs) : event.attrs[k].val = Func
    /\ stdout = <<>>

\* what has been written to the writer w
Content(w) == IF w = Stdout THEN stdout ELSE buf

\* C30: the line of an encoded event is in the sink given to NewECSHandler
\* when the encoder, or the root it was derived from, was constructed, and
\* nothing is in any other destination.
C30_WrittenToSuppliedSink ==
    Encoded =>
        /\ Content(hdl.handler.w) = <<Bytes(Record(hdl, event)), Newline>>
        /\ \A w \in Sinks \ {hdl.handler.w} : Content(w) = <<>>

(***************************************************************************)
(* C22: one log line per completed request                                 *)
(***************************************************************************)
LoggerKeys ==
    {"http.request.method", "url.path", "http.response.status_code",
     "http.response.body.bytes", "event.duration", "client.address", "trace.id"}

\* C22: a completed request has left exactly one line, the Logger's, carrying
\* method, path, status, bytes, duration, remote_addr and request_id (under
\* their mapped names) with the request's own values; a request that has not
\* completed has left none, so the handlers' log calls add no line; and
\* os.Stdout holds nothing but these lines.
C22_OneLinePerRequest ==
    /\ \A i \in Requests :
          /\ rq[i].pc # "done" => rq[i].lines = <<>>
          /\ rq[i].pc = "done" =>
                /\ Len(rq[i].lines) = 2
                /\ rq[i].lines[1].kind = "record" /\ rq[i].lines[2] = Newline
                /\ LoggerKeys \subseteq DOMAIN rq[i].lines[1].rec
                /\ rq[i].lines[1].rec["message"] = Str("request completed")
                /\ rq[i].lines[1].rec["http.request.method"] = Str(rq[i].method)
                /\ rq[i].lines[1].rec["url.path"] = Str(rq[i].path)
                /\ rq[i].lines[1].rec["http.response.status_code"] =
                       Int64(StatusOf(rq[i].method, rq[i].path))
                /\ rq[i].lines[1].rec["trace.id"] = Str(ReqID(i))
    /\ Len(stdout) = 2 * Cardinality({i \in Requests : rq[i].pc = "done"})

\* GET /ping went through Ping's Debug call and writeJSON and completed, and
\* an unrouted request completed as well
C22_Witness ==
    \E i, j \in Requests :
        /\ rq[i].pc = "done" /\ rq[i].method = "GET" /\ rq[i].path = "/ping"
        /\ rq[i].lines[1].rec["http.response.status_code"] = Int64(StatusOK)
        /\ rq[j].pc = "done" /\ rq[j].path = "/x"
        /\ Len(stdout) = 4

(***************************************************************************)
(* C31: the value written for an attribute                                 *)
(***************************************************************************)
\* what the record is to hold for attribute a
C31_Expected(a) ==
    IF a.key = "duration" /\ a.val.kind = "duration"
    THEN [kind |-> "int64", s |-> "", n |-> a.val.n]
    ELSE a.val

\* C31: mapAttribute writes for the key duration the integer count of
\* nanoseconds when the value is a duration and the value itself otherwise,
\* and for every other key the value itself; the encoded record holds that
\* value for the last attribute written under each output key.
C31_DurationAsNanoseconds ==
    /\ \A i \in AttrIdx :
          mapAttribute(NoAttrs, event.attrs[i].key, event.attrs[i].val)
              [C8_Table(event.attrs[i].key)] = C31_Expected(event.attrs[i])
    /\ Encoded =>
          \A i \in AttrIdx :
              LastWriter(C8_Table(event.attrs[i].key)) = i =>
                  Out[C8_Table(event.attrs[i].key)] = C31_Expected(event.attrs[i])

\* a duration under the key duration and one under another key were encoded
C31_Witness ==
    /\ Encoded
    /\ event.attrs = <<[key |-> "duration", val |-> Dur(7)],
                       [key |-> "uptime", val |-> Dur(7)]>>
    /\ Out["event.duration"] = Int64(7)
    /\ Out["event.uptime"] = Dur(7)

(***************************************************************************)
(* C32: the recorded status and the status the client received             *)
(***************************************************************************)
\* C32: once Metrics has read the proxy, the status it records is the status
\* net/http committed to the client, whatever WriteHeader and Write calls the
\* handler, Timeout and Recoverer made.
C32_LabelIsClientStatus ==
    (chain = "done" /\ ww.wrote # 0) => recorded = ww.wrote

(***************************************************************************)
(* C33: the histogram's count against the counter                          *)
(***************************************************************************)
\* the requests that have observed their duration and not yet incremented
BetweenSteps == {i \in Requests : req[i].pc = "observed"}

\* C33: for each labelset the observation count of
\* http_request_duration_seconds is at least http_requests_total, exceeds it
\* by no more than the number of requests between Observe and Inc (exactly by
\* those of them that observed this labelset), and equals it when there is
\* no such request.
C33_HistogramLeadsCounter ==
    \A ls \in DOMAIN HttpDuration \cup DOMAIN HttpRequestsTotal :
        /\ Value(HttpDuration, ls) >= Value(HttpRequestsTotal, ls)
        /\ Value(HttpDuration, ls) - Value(HttpRequestsTotal, ls)
               <= Cardinality(BetweenSteps)
        /\ Value(HttpDuration, ls) - Value(HttpRequestsTotal, ls) =
               Cardinality({i \in BetweenSteps : req[i].observed = ls})
        /\ BetweenSteps = {} => Value(HttpDuration, ls) = Value(HttpRequestsTotal, ls)

\* one request has finished and another, with the same labels, is between
\* its Observe and its Inc
C33_Witness ==
    \E i, j \in Requests :
        /\ req[i].pc = "done" /\ req[j].pc = "observed"
        /\ req[j].observed = req[i].counted
        /\ Value(HttpDuration, req[i].counted) = 2
        /\ Value(HttpRequestsTotal, req[i].counted) = 1

(***************************************************************************)
(* C34: the signal is handled before Start has bound the socket            *)
(***************************************************************************)
\* main has called Shutdown while the Start goroutine is still before
\* net.Listen (Start's steps only go forward, so it was there at the call)
EarlySignal == inShutdown /\ start[1].pc \in {"check", "listen"}

\* C34 as stated: after a signal handled before the bind, no step makes Start
\* return an error or the process exit with a code other than 0.
C34_EarlySignalExitsZero ==
    [][EarlySignal => (start'[1].result # "err" /\ exitCode' \in {NoExit, 0})]_vars

\* C34 as amended: after the signal the server never serves or accepts;
\* Shutdown returns nil at once; Start returns nil unless its bind fails, and
\* then it returns that error; the process exits, with code 0 unless the bind
\* failure's exit comes first.
C34_EarlySignalEndsProcess ==
    /\ [](inShutdown => (listeners = {} /\ start[1].pc # "serving"))
    /\ [][inShutdown => \A c \in Conns : conn[c] = "none" => conn'[c] = "none"]_vars
    /\ [](EarlySignal => (sd.pc = "returned" /\ sd.result = "nil"
                             /\ mainpc \in {"shutdown", "exited"}))
    /\ [][(EarlySignal /\ start'[1].pc = "returned") =>
              /\ start'[1].err \in {"ErrServerClosed", "bind"}
              /\ start'[1].result = "err" <=> start'[1].err = "bind"
              /\ exitCode' = 1 <=> start'[1].err = "bind"]_vars
    /\ []((~Alive /\ sd.n = 1 /\ sd.atCall = {}) =>
              (exitCode = 0 \/ (exitCode = 1 /\ start[1].err = "bind")))
    /\ (EarlySignal ~> ~Alive)

\* Shutdown has returned nil while Start is about to call net.Listen
C34_Witness ==
    /\ EarlySignal /\ start[1].pc = "listen"
    /\ sd.n = 1 /\ sd.pc = "returned" /\ sd.result = "nil"
    /\ mainpc = "shutdown" /\ Alive

(***************************************************************************)
(* C35: a second signal during the drain                                   *)
(***************************************************************************)
\* a signal is delivered in this step after main has taken the first one
SecondSignal == mainpc = "shutdown" /\ quit' # quit

\* C35: a signal delivered after main has called Shutdown only fills the quit
\* channel: the drain, its deadline, the server and the exit code stay as they
\* are, Shutdown is not called again, and the exit code is the one the single
\* Shutdown call's result gives.
C35_SecondSignalIgnored ==
    /\ [][SecondSignal =>
              /\ quit' = 1
              /\ sd' = sd /\ ctxDone' = ctxDone /\ inflight' = inflight
              /\ conn' = conn /\ start' = start /\ inShutdown' = inShutdown
              /\ exitCode' = exitCode /\ mainpc' = mainpc]_vars
    /\ []((mainpc \in {"shutdown", "exited"}) => sd.n = 1)
    /\ []((mainpc = "exited" /\ quit = 1) =>
              exitCode = IF sd.result = "nil" THEN 0 ELSE 1)

\* a second signal sits in quit while Shutdown waits for a busy connection
C35_Witness ==
    /\ mainpc = "shutdown" /\ quit = 1
    /\ sd.n = 1 /\ sd.pc = "waiting" /\ Active # {}
    /\ Alive

(***************************************************************************)
(* C36: how many labelsets the recorder holds                              *)
(***************************************************************************)
\* the methods the route table names: r.Get for the three handlers
RouteMethods == {"GET"}

\* the series of http_requests_total with the endpoint and status of ls
SameRouteAndStatus(ls) ==
    {x \in DOMAIN HttpRequestsTotal : x[2] = ls[2] /\ x[3] = ls[3]}

\* C36: the recorder holds, for each route pattern and status, no more series
\* than the route table names methods, so that the number of labelsets is
\* bounded by the routes and the statuses alone, whatever paths and methods
\* the clients send.
C36_CardinalityBounded ==
    \A ls \in DOMAIN HttpRequestsTotal :
        Cardinality(SameRouteAndStatus(ls)) <= Cardinality(RouteMethods)

(***************************************************************************)
(* C37: level filtering                                                    *)
(***************************************************************************)
\* the call left exactly one line on os.Stdout
OneLine == Len(stdout) = 2 /\ stdout[1].kind = "record" /\ stdout[2] = Newline

\* C37 as stated: a DEBUG call leaves no line, and each INFO, WARN or ERROR
\* call leaves exactly one, on the logger of logger.New and on encoders
\* derived from it.
C37_LevelFilter ==
    logpc = "done" =>
        /\ event.level = LevelDebug => stdout = <<>>
        /\ event.level \in {LevelInfo, LevelWarn, LevelError} => OneLine

\* C37 as amended: a DEBUG call leaves no line and Handle is not called; an
\* INFO, WARN or ERROR call leaves exactly one line, with its level, when
\* its event can be serialized, and none when it cannot.
C37_LevelFilterSerializable ==
    logpc = "done" =>
        /\ buf = <<>>
        /\ event.level = LevelDebug => (stdout = <<>> /\ logerr = "none")
        /\ (event.level \in {LevelInfo, LevelWarn, LevelError} /\ ~Unserializable) =>
              /\ OneLine
              /\ stdout[1].rec["log.level"] = Str(LevelString(event.level))
        /\ (event.level \in {LevelInfo, LevelWarn, LevelError} /\ Unserializable) =>
              (stdout = <<>> /\ logerr = "err")

\* a WARN call on a derived encoder has left its line
C37_Witness ==
    /\ logpc = "done" /\ event.level = LevelWarn
    /\ hdl # hdls[1] /\ hdl.handler.attrs # <<>>
    /\ OneLine /\ stdout[1].rec["log.level"] = Str("WARN")
====
